---- MODULE Spec2Model ----
(***************************************************************************)
(* Model of clip/server.py: a process that loads the CLIP model at import  *)
(* time, starts an HTTP health-check listener on a daemon thread, and      *)
(* serves GetImageEmbedding over gRPC from a pool of MaxWorkers threads.   *)
(*                                                                         *)
(* Threads are anonymous, so the busy pool threads are kept as a bag of    *)
(* handler activations; each activation carries the handler's locals and   *)
(* its position in GetImageEmbedding.  Tensors are modelled by their       *)
(* shapes, images by their mode and by whether their pixel data can be     *)
(* loaded, request blobs by what PIL makes of them.                        *)
(***************************************************************************)
EXTENDS Naturals, Sequences, FiniteSets, Bags, TLC

\* ------------------------------------------------------------ constants
\* futures.ThreadPoolExecutor(max_workers=10)
MaxWorkers == 10
\* clip.load("ViT-B/32"): input resolution and output width of that model
InputRes == 224
EmbedDim == 512

\* ------------------------------------------------------------ bounds
\* concurrent clients (each with at most one call outstanding) in the
\* scenario that mixes every kind of request and probe
MaxClientsMixed == 3
\* clients beyond the pool size in the scenario that saturates the pool
MaxExtra == 2

VARIABLES
    scenario,   \* the environment: which clients and probes exist
    pc,         \* position of the main thread
    exit,       \* how the process ended, and in which phase
    model,      \* the module-level model handle
    modelLoads, \* number of completed clip.load calls
    health,     \* state of the health-check daemon thread
    probe,      \* HTTP request the health-check handler took last
    reply,      \* last HTTP response written by the health-check thread
    grpc,       \* state of the gRPC server object
    bound,      \* whether the gRPC port is bound
    waiting,    \* requests received and waiting for a pool thread
    workers     \* bag of handler activations, one per busy pool thread

vars == <<scenario, pc, exit, model, modelLoads, health, probe, reply,
          grpc, bound, waiting, workers>>

\* ------------------------------------------------------------ environment
Modes == {"RGB", "L", "RGBA"}

\* What a request's image_data is to PIL: not an image at all, an image file
\* whose header parses but whose pixel data is cut short, or a sound image.
GarbageBlob == [kind |-> "garbage", mode |-> "-"]
AllBlobs ==
    {GarbageBlob} \cup [kind : {"truncated", "valid"}, mode : Modes]

Malformed(blob) == blob.kind \in {"garbage", "truncated"}

Methods == {"GET", "HEAD", "POST"}
Paths == {"/", "/healthz"}
AllProbes == [method : Methods, path : Paths]

Scenarios == {"mixed", "saturating"}

Clients(s) ==
    IF s = "mixed" THEN MaxClientsMixed ELSE MaxWorkers + MaxExtra

Blobs(s) ==
    IF s = "mixed" THEN AllBlobs ELSE {[kind |-> "valid", mode |-> "RGB"]}

Probes(s) ==
    IF s = "mixed" THEN AllProbes ELSE {[method |-> "GET", path |-> "/"]}

\* ------------------------------------------------------------ values
NoImage == [mode |-> "-", ok |-> FALSE]
NoProbe == [method |-> "-", path |-> "-"]
NoReply == [status |-> 0, ctype |-> "", body |-> ""]
NoExit == [cause |-> "none", at |-> "none"]

Busy == BagCardinality(workers)

\* The lifecycle phase the main thread is in.
Phase ==
    CASE pc = "load" -> "Starting"
      [] pc \in {"spawn", "setup", "start"} -> "ModelLoaded"
      [] pc = "wait" -> "Serving"
      [] OTHER -> "Terminated"

\* ------------------------------------------------------------ process exit
\* A thread that is not a daemon outlives the main thread.
HealthSurvivesExit(h) == h

\* healthcheck_thread.daemon = True: the thread is abandoned at process exit.
HealthAtExit(h) == IF h = "unstarted" THEN "unstarted" ELSE "gone"

\* The process ends: every thread, queue and socket goes with it.
ProcessExit(cause) ==
    /\ pc' = "exited"
    /\ exit' = [cause |-> cause, at |-> Phase]
    /\ health' = HealthAtExit(health)
    /\ probe' = NoProbe
    /\ reply' = NoReply
    /\ grpc' = IF grpc = "none" THEN "none" ELSE "stopped"
    /\ bound' = FALSE
    /\ waiting' = 0
    /\ workers' = EmptyBag
    /\ UNCHANGED scenario

\* ------------------------------------------------------------ PIL / torch
\* Image.open: raises on bytes that are no image; otherwise reads the header
\* only, the pixel data is decoded later, on load().
CanOpen(blob) == blob.kind # "garbage"
ImageOpen(blob) == [mode |-> blob.mode, ok |-> blob.kind = "valid"]

\* image.load(), called by convert() and by the resize in preprocess():
\* raises when the pixel data is cut short.
CanLoad(image) == image.ok

ImageConvert(image, mode) == [image EXCEPT !.mode = mode]

Channels(mode) ==
    CASE mode = "RGB" -> 3
      [] mode = "L" -> 1
      [] mode = "RGBA" -> 4
      [] OTHER -> 0

\* preprocess(image): a tensor of the image's channels at the input size
Preprocess(image) == <<Channels(image.mode), InputRes, InputRes>>
Unsqueeze0(shape) == <<1>> \o shape
\* model.encode_image(batch): one row of EmbedDim numbers per batch item
EncodeImage(m, shape) == <<shape[1], EmbedDim>>
\* squeeze left out: the batch dimension stays in front
Squeeze0Identity(shape) == shape

Squeeze0(shape) == IF shape[1] = 1 THEN Tail(shape) ELSE shape
\* tensor.tolist(): a list as long as the first dimension
ToListLen(shape) == shape[1]

\* ------------------------------------------------------------ handler
\* A handler activation at entry to GetImageEmbedding.
NewCall(blob) ==
    [pc |-> "open", blob |-> blob, image |-> NoImage, converted |-> FALSE,
     tensor |-> <<>>, calls |-> 0, status |-> "", returned |-> FALSE,
     embedding |-> 0]

\* The handler returns a response message.
Return(w, status, n) ==
    [w EXCEPT !.pc = "done", !.status = status, !.returned = TRUE,
              !.embedding = n]

\* An exception leaves the handler: the gRPC runtime aborts the call with
\* status UNKNOWN and no response message.
Raise(w) == [w EXCEPT !.pc = "done", !.status = "UNKNOWN"]

Replace(w, w2) == (workers (-) SetToBag({w})) (+) SetToBag({w2})

ServerUnchanged ==
    UNCHANGED <<scenario, pc, exit, model, modelLoads, health, probe, reply,
                grpc, bound>>

\* lines 35-43: try Image.open, except -> INVALID_ARGUMENT, empty response
OpenStep(w) ==
    /\ w.pc = "open"
    /\ workers' = Replace(w,
         IF CanOpen(w.blob)
         THEN [w EXCEPT !.pc = "convert", !.image = ImageOpen(w.blob)]
         ELSE Return(w, "INVALID_ARGUMENT", 0))
    /\ UNCHANGED waiting
    /\ ServerUnchanged

\* converts grayscale only: any other mode goes on as it is
ConvertStepGrayOnly(w) ==
    /\ w.pc = "convert"
    /\ workers' = Replace(w,
         IF w.image.mode = "L"
         THEN IF CanLoad(w.image)
              THEN [w EXCEPT !.pc = "preprocess",
                             !.image = ImageConvert(w.image, "RGB"),
                             !.converted = TRUE]
              ELSE Raise(w)
         ELSE [w EXCEPT !.pc = "preprocess"])
    /\ UNCHANGED waiting
    /\ ServerUnchanged

\* lines 46-48: if image.mode != "RGB": image = image.convert("RGB")
ConvertStep(w) ==
    /\ w.pc = "convert"
    /\ workers' = Replace(w,
         IF w.image.mode # "RGB"
         THEN IF CanLoad(w.image)
              THEN [w EXCEPT !.pc = "preprocess",
                             !.image = ImageConvert(w.image, "RGB"),
                             !.converted = TRUE]
              ELSE Raise(w)
         ELSE [w EXCEPT !.pc = "preprocess"])
    /\ UNCHANGED waiting
    /\ ServerUnchanged

\* the exception of a handler takes the process down
PreprocessStepFatal(w) ==
    /\ w.pc = "preprocess"
    /\ IF CanLoad(w.image)
       THEN /\ workers' = Replace(w,
                 [w EXCEPT !.pc = "encode",
                           !.tensor = Unsqueeze0(Preprocess(w.image))])
            /\ UNCHANGED waiting
            /\ ServerUnchanged
       ELSE /\ ProcessExit("handler_error")
            /\ UNCHANGED <<model, modelLoads>>

\* line 52: processed_image = preprocess(image).unsqueeze(0).to(device)
PreprocessStep(w) ==
    /\ w.pc = "preprocess"
    /\ workers' = Replace(w,
         IF CanLoad(w.image)
         THEN [w EXCEPT !.pc = "encode",
                        !.tensor = Unsqueeze0(Preprocess(w.image))]
         ELSE Raise(w))
    /\ UNCHANGED waiting
    /\ ServerUnchanged

\* lines 56-62: encode_image, squeeze(0), tolist, return the response
EncodeStep(w) ==
    /\ w.pc = "encode"
    /\ workers' = Replace(w,
         Return([w EXCEPT !.calls = @ + 1], "OK",
                ToListLen(Squeeze0(EncodeImage(model, w.tensor)))))
    /\ UNCHANGED waiting
    /\ ServerUnchanged

\* The runtime sends the outcome to the client; the thread is free again.
Finish(w) ==
    /\ w.pc = "done"
    /\ workers' = workers (-) SetToBag({w})
    /\ UNCHANGED waiting
    /\ ServerUnchanged

\* A client call reaches the started server and is queued for the pool.
RequestArrive ==
    /\ pc = "wait"
    /\ grpc = "started"
    /\ bound
    /\ waiting + Busy < Clients(scenario)
    /\ waiting' = waiting + 1
    /\ UNCHANGED workers
    /\ ServerUnchanged

\* a thread per call, whatever the pool size
AcceptUnbounded ==
    /\ grpc = "started"
    /\ waiting > 0
    /\ \E blob \in Blobs(scenario) :
         workers' = workers (+) SetToBag({NewCall(blob)})
    /\ waiting' = waiting - 1
    /\ ServerUnchanged

\* A free pool thread takes a waiting call and enters the handler.
\* Nothing looks at the bytes of a call before the handler does, so they
\* are drawn here.
Accept ==
    /\ grpc = "started"
    /\ waiting > 0
    /\ Busy < MaxWorkers
    /\ \E blob \in Blobs(scenario) :
         workers' = workers (+) SetToBag({NewCall(blob)})
    /\ waiting' = waiting - 1
    /\ ServerUnchanged

\* ------------------------------------------------------------ health check
OkReply == [status |-> 200, ctype |-> "text/plain", body |-> "OK"]

\* answers the root path only
do_GET_RootOnly(p) ==
    IF p.path = "/" THEN OkReply
    ELSE [status |-> 404, ctype |-> "text/plain", body |-> "Not Found"]

\* HealthCheckHandler.do_GET
do_GET(p) == OkReply

\* BaseHTTPRequestHandler: send_error(501) when the handler has no do_<method>
Unsupported(p) ==
    [status |-> 501, ctype |-> "text/html;charset=utf-8",
     body |-> IF p.method = "HEAD" THEN "" ELSE "Error response"]

\* The only do_<method> HealthCheckHandler defines is do_GET.
Dispatch(p) == IF p.method = "GET" THEN do_GET(p) ELSE Unsupported(p)

GrpcUnchanged == UNCHANGED <<grpc, bound, waiting, workers>>

\* HTTPServer(server_address, HealthCheckHandler); serve_forever()
HealthBind ==
    /\ health = "binding"
    /\ health' = "idle"
    /\ UNCHANGED <<scenario, pc, exit, model, modelLoads, probe, reply>>
    /\ GrpcUnchanged

\* HTTPServer(...) raises (port in use): the exception ends the thread only.
HealthBindFail ==
    /\ health = "binding"
    /\ health' = "dead"
    /\ UNCHANGED <<scenario, pc, exit, model, modelLoads, probe, reply>>
    /\ GrpcUnchanged

\* serve_forever accepts one connection and reads its request line.
ProbeArrive ==
    /\ health = "idle"
    /\ \E p \in Probes(scenario) : probe' = p
    /\ health' = "handling"
    /\ reply' = NoReply
    /\ UNCHANGED <<scenario, pc, exit, model, modelLoads>>
    /\ GrpcUnchanged

\* the health-check handler runs on a thread of the gRPC pool
RespondOnPool ==
    /\ health = "handling"
    /\ Busy < MaxWorkers
    /\ reply' = Dispatch(probe)
    /\ health' = "idle"
    /\ UNCHANGED <<scenario, pc, exit, model, modelLoads, probe>>
    /\ GrpcUnchanged

\* The handler writes its response; the thread goes back to accepting.
Respond ==
    /\ health = "handling"
    /\ reply' = Dispatch(probe)
    /\ health' = "idle"
    /\ UNCHANGED <<scenario, pc, exit, model, modelLoads, probe>>
    /\ GrpcUnchanged

\* ------------------------------------------------------------ main thread
MainUnchanged == UNCHANGED <<scenario, exit, probe, reply, waiting, workers>>

\* the model is not loaded at import time
LoadModelDeferred ==
    /\ pc = "load"
    /\ pc' = "spawn"
    /\ UNCHANGED <<model, modelLoads, health, grpc, bound>>
    /\ MainUnchanged

\* line 26: model, preprocess = clip.load("ViT-B/32", device=device)
LoadModel ==
    /\ pc = "load"
    /\ model' = "ViT-B/32"
    /\ modelLoads' = modelLoads + 1
    /\ pc' = "spawn"
    /\ UNCHANGED <<health, grpc, bound>>
    /\ MainUnchanged

\* the load failure is caught and logged, and start-up goes on
LoadModelFailSwallowed ==
    /\ pc = "load"
    /\ model' = "failed"
    /\ pc' = "spawn"
    /\ UNCHANGED <<modelLoads, health, grpc, bound>>
    /\ MainUnchanged

\* line 26 raises: the module-level exception ends the interpreter.
LoadModelFail ==
    /\ pc = "load"
    /\ model' = "failed"
    /\ UNCHANGED modelLoads
    /\ ProcessExit("load_error")

\* lines 97-99: start the health-check thread
SpawnHealth ==
    /\ pc = "spawn"
    /\ health' = "binding"
    /\ pc' = "setup"
    /\ UNCHANGED <<model, modelLoads, grpc, bound>>
    /\ MainUnchanged

\* lines 102-105: grpc.server(...), add servicer, add_insecure_port succeeds
SetupGrpc ==
    /\ pc = "setup"
    /\ grpc' = "configured"
    /\ bound' = TRUE
    /\ pc' = "start"
    /\ UNCHANGED <<model, modelLoads, health>>
    /\ MainUnchanged

\* line 105 cannot bind and the grpc release in use reports it by returning
\* port 0: the return value is ignored and the server starts without a port.
SetupGrpcUnbound ==
    /\ pc = "setup"
    /\ grpc' = "configured"
    /\ bound' = FALSE
    /\ pc' = "start"
    /\ UNCHANGED <<model, modelLoads, health>>
    /\ MainUnchanged

\* line 105 cannot bind and the grpc release in use raises RuntimeError:
\* nothing catches it in serve() or under __main__.
SetupGrpcRaise ==
    /\ pc = "setup"
    /\ UNCHANGED <<model, modelLoads>>
    /\ ProcessExit("bind_error")

\* lines 108-109: server.start(); server.wait_for_termination()
StartGrpc ==
    /\ pc = "start"
    /\ grpc' = "started"
    /\ pc' = "wait"
    /\ UNCHANGED <<model, modelLoads, health, bound>>
    /\ MainUnchanged

\* SIGTERM / SIGINT / SIGKILL from outside, in any phase.
Signal ==
    /\ pc # "exited"
    /\ UNCHANGED <<model, modelLoads>>
    /\ ProcessExit("signal")

\* ------------------------------------------------------------ specification
Init ==
    /\ scenario \in Scenarios
    /\ pc = "load"
    /\ exit = NoExit
    /\ model = "none"
    /\ modelLoads = 0
    /\ health = "unstarted"
    /\ probe = NoProbe
    /\ reply = NoReply
    /\ grpc = "none"
    /\ bound = FALSE
    /\ waiting = 0
    /\ workers = EmptyBag

Next ==
    \/ LoadModel
    \/ LoadModelFail
    \/ SpawnHealth
    \/ SetupGrpc
    \/ SetupGrpcUnbound
    \/ SetupGrpcRaise
    \/ StartGrpc
    \/ Signal
    \/ HealthBind
    \/ HealthBindFail
    \/ ProbeArrive
    \/ Respond
    \/ RequestArrive
    \/ Accept
    \/ \E w \in BagToSet(workers) : OpenStep(w)
    \/ \E w \in BagToSet(workers) : ConvertStep(w)
    \/ \E w \in BagToSet(workers) : PreprocessStep(w)
    \/ \E w \in BagToSet(workers) : EncodeStep(w)
    \/ \E w \in BagToSet(workers) : Finish(w)

Spec == Init /\ [][Next]_vars

\* ------------------------------------------------------------ properties
Calls == BagToSet(workers)
Done == {w \in Calls : w.pc = "done"}

PhaseRank(ph) ==
    CASE ph = "Starting" -> 0
      [] ph = "ModelLoaded" -> 1
      [] ph = "Serving" -> 2
      [] OTHER -> 3

StepRank(p) ==
    CASE p = "open" -> 0
      [] p = "convert" -> 1
      [] p = "preprocess" -> 2
      [] p = "encode" -> 3
      [] OTHER -> 4

\* C1: every call whose bytes are malformed (no image at all, or an image
\* whose header parses and whose data is cut short) ends with status
\* INVALID_ARGUMENT and an empty response, never with an exception that
\* leaves the handler.
C1_MalformedEndsInvalidArgument ==
    \A w \in Done :
        Malformed(w.blob) =>
            /\ w.status = "INVALID_ARGUMENT"
            /\ w.returned
            /\ w.embedding = 0

\* C2: while the process is serving, a GET probe the health-check thread has
\* taken can be answered at once, and the answer is 200 OK, whatever the
\* state of the pool: the answer does not wait for a free worker.
C2_ProbeAnsweredUnderLoad ==
    (pc = "wait" /\ health = "handling" /\ probe.method = "GET") =>
        /\ ENABLED Respond
        /\ Dispatch(probe) = OkReply

C2_Witness ==
    /\ pc = "wait"
    /\ health = "handling"
    /\ probe.method = "GET"
    /\ Busy = MaxWorkers
    /\ waiting > 0
    /\ \E w \in Calls : w.pc = "encode"

\* C3: the model is loaded at most once, and whenever a listener has been
\* started, a request is waiting or being handled, or a probe has been
\* answered, exactly one load has completed and the handle is the loaded
\* model.
C3_LoadedOnceBeforeTraffic ==
    /\ modelLoads <= 1
    /\ ( \/ health \in {"binding", "idle", "handling", "dead", "gone"}
         \/ grpc # "none"
         \/ waiting > 0
         \/ workers # EmptyBag
         \/ reply # NoReply )
       => (modelLoads = 1 /\ model = "ViT-B/32")

C3_Witness ==
    /\ modelLoads = 1
    /\ reply = OkReply
    /\ \E w \in Done : w.calls = 1

\* C4: every call that ends OK returns a vector of EmbedDim numbers, whatever
\* the image was; a returned response is empty exactly when the status is
\* INVALID_ARGUMENT.
C4_FixedLengthEmbedding ==
    \A w \in Done :
        /\ w.status = "OK" => (w.returned /\ w.embedding = EmbedDim)
        /\ (w.returned /\ w.embedding = 0) <=> w.status = "INVALID_ARGUMENT"

C4_Witness ==
    \E w1, w2 \in Done :
        /\ w1.status = "OK" /\ w1.blob.mode = "RGB" /\ w1.embedding = EmbedDim
        /\ w2.status = "OK" /\ w2.blob.mode = "L" /\ w2.embedding = EmbedDim

\* C5 as stated: every probe answered, of any method and path, is answered
\* 200, text/plain, OK.
C5_AnyMethodAnsweredOk ==
    reply # NoReply => reply = OkReply

\* C5 as amended: a GET probe of any path is answered 200, text/plain, OK;
\* a probe of any other method is answered 501 and never with body OK.
C5_GetAnsweredOkOthers501 ==
    reply # NoReply =>
        /\ probe.method = "GET" => reply = OkReply
        /\ probe.method # "GET" =>
              (reply.status = 501 /\ reply.body # "OK"
                   /\ reply.ctype # "text/plain")

C5_Witness ==
    /\ reply = OkReply
    /\ probe = [method |-> "GET", path |-> "/healthz"]

\* C6: when the model load has failed the process is terminated, from
\* Starting, with neither listener ever started, no probe answered, no
\* request taken, and nothing left that can happen.
C6_LoadFailureNeverServes ==
    model = "failed" =>
        /\ pc = "exited"
        /\ exit = [cause |-> "load_error", at |-> "Starting"]
        /\ health = "unstarted"
        /\ grpc = "none"
        /\ ~bound
        /\ reply = NoReply
        /\ waiting = 0
        /\ workers = EmptyBag
        /\ modelLoads = 0
        /\ ~ENABLED Next

C6_Witness ==
    model = "failed" /\ pc = "exited"

C7_Step ==
    /\ PhaseRank(Phase') >= PhaseRank(Phase)
    /\ (Phase' # "Terminated") => (PhaseRank(Phase') <= PhaseRank(Phase) + 1)
    /\ (Phase # "Terminated") => exit = NoExit
    /\ (Phase = "Terminated") => UNCHANGED vars
    /\ (Phase # "Terminated" /\ Phase' = "Terminated") =>
          /\ exit'.at = Phase
          /\ \/ exit'.cause = "signal"
             \/ (Phase = "Starting" /\ exit'.cause = "load_error")
             \/ (Phase = "ModelLoaded" /\ exit'.cause = "bind_error")

C8_RgbBeforeInference ==
    \A w \in Calls :
        /\ w.pc \in {"preprocess", "encode"} =>
              /\ w.image.mode = "RGB"
              /\ w.converted <=> (w.blob.mode # "RGB")
        /\ (w.pc = "encode" \/ w.calls > 0) =>
              /\ w.tensor = <<1, 3, InputRes, InputRes>>
              /\ w.converted <=> (w.blob.mode # "RGB")

C8_Witness ==
    /\ \E w \in Done : w.calls = 1 /\ w.blob.mode = "RGBA" /\ w.converted
    /\ \E w \in Calls : w.pc = "encode" /\ w.blob.mode = "RGB" /\ ~w.converted

C9_Inv ==
    /\ Busy <= MaxWorkers
    /\ waiting + Busy <= Clients(scenario)
    /\ \A w \in Calls :
          /\ w.calls <= 1
          /\ w.pc # "done" => (w.status = "" /\ ~w.returned /\ w.calls = 0)
          /\ w.pc = "done" =>
                /\ w.status \in {"OK", "INVALID_ARGUMENT", "UNKNOWN"}
                /\ w.calls = (IF w.status = "OK" THEN 1 ELSE 0)
                /\ w.returned <=> (w.status # "UNKNOWN")

C9_Step ==
    (pc' # "exited") =>
        /\ waiting' >= waiting - 1
        /\ waiting' = waiting - 1 =>
              \E blob \in AllBlobs :
                  workers' = workers (+) SetToBag({NewCall(blob)})
        /\ waiting' = waiting + 1 => workers' = workers
        /\ (waiting' = waiting /\ workers' # workers) =>
              \E w \in Calls :
                  \/ w.pc = "done" /\ workers' = workers (-) SetToBag({w})
                  \/ \E w2 \in BagToSet(workers') :
                        /\ workers' = Replace(w, w2)
                        /\ StepRank(w2.pc) > StepRank(w.pc)
                        /\ w2.blob = w.blob
                        /\ w2.calls >= w.calls

\* C9: at most MaxWorkers calls are being handled; a waiting call leaves the
\* queue only by being taken by a worker; a call taken by a worker only moves
\* forward through the handler, reaches one outcome (a vector, an empty
\* client-error response or a failure), invokes the model at most once, and
\* leaves its worker only after that outcome.
C9_PoolBoundNoDropNoRetry == []C9_Inv /\ [][C9_Step]_vars

C9_Witness ==
    /\ Busy = MaxWorkers
    /\ waiting > 0
    /\ \E w \in Done : w.status = "OK" /\ w.calls = 1

\* C10: with the health-check thread dead the main thread still goes on to
\* set up and start the gRPC server and to take requests, and the death is
\* never a cause of exit; once the process has exited the health-check
\* thread is gone with it, takes no probe and answers none.
C10_OneWayIndependence ==
    /\ health = "dead" =>
          /\ pc # "exited"
          /\ pc = "setup" => ENABLED SetupGrpc
          /\ pc = "start" => ENABLED StartGrpc
          /\ (pc = "wait" /\ bound /\ waiting + Busy < Clients(scenario))
                => ENABLED RequestArrive
          /\ (waiting > 0 /\ Busy < MaxWorkers) => ENABLED Accept
    /\ pc = "exited" =>
          /\ exit.cause \in {"signal", "load_error", "bind_error"}
          /\ health \in {"unstarted", "gone"}
          /\ reply = NoReply
          /\ ~ENABLED ProbeArrive
          /\ ~ENABLED Respond

C10_Witness ==
    /\ health = "dead"
    /\ pc = "wait"
    /\ \E w \in Done : w.status = "OK"

====
